---- MODULE Spec2Model ----
(***************************************************************************)
(* The vote ledger of blogmaxxer-image-api: api/vote.js (processVote),     *)
(* api/unvote.js (processUnvote) and the rate limiter (checkRateLimit),    *)
(* running as concurrent serverless invocations against two JSON files of  *)
(* one GitHub repository, data/data.json (the vote counts) and             *)
(* data/votes.json (who voted for what).                                   *)
(*                                                                         *)
(* A step of the model is what one invocation does between two awaits.     *)
(* GitHub answers a write with 409 when the sha sent with it is not the    *)
(* file's current sha.  A sha is only ever compared for equality, and      *)
(* every commit gives the file a sha no invocation holds, so the model     *)
(* keeps, per invocation and file, whether the sha it holds is still the   *)
(* file's current one (sha[p][path]).                                      *)
(***************************************************************************)
EXTENDS Integers, Sequences, FiniteSets, TLC

\* ------------------------------------------------------------- constants

DATA_PATH == "data/data.json"
VOTES_PATH == "data/votes.json"
Paths == {DATA_PATH, VOTES_PATH}

\* vote.js, unvote.js: retries on conflicts
MAX_RETRIES == 3
\* vote.js: 60 * 60 * 1000 ms, and the votes allowed in one window
RATE_LIMIT_WINDOW == 3600000
MAX_VOTES_PER_WINDOW == 10

\* ---------------------------------------------------------------- bounds

\* The invocations that may be in flight at once.
Procs == {"p1", "p2"}
\* The blogId values of requests; data.json has an entry for some of them.
Items == {"a1"}
\* The hashed addresses of the callers.
IpHashes == {"h1", "h2"}
\* The highest vote count an entry is let to reach.
MaxVotes == 2
\* The highest vote count of an entry in the initial data.json.
MaxInitVotes == 1
\* The requests, counted from the initial state, for which the initial files
\* are remembered (origin).
MaxTracked == 2
\* The requests a caller sends one after the other (SpecSeq).
MaxSeqOps == 3
\* SpecLimiter: the clock runs over the first MaxWindows + 1 windows, and an
\* identity calls at most MaxCalls times in a window.
MaxWindows == 2
MaxCalls == 12
\* SpecList: the requests of the caller beside the list
MaxListOps == 2

Kinds == {"vote", "unvote"}

VARIABLES
  dataJson,     \* data/data.json on GitHub: [exists, entries: id -> votes]
  votesJson,    \* data/votes.json on GitHub: [exists, votes: id -> set of ipHash]
  pc,           \* where each invocation stands
  req,          \* its request: [kind, blogId, ipHash]
  attempt,      \* processVote / processUnvote: attempt
  got,          \* the files of Promise.all already read in this attempt
  blogData,     \* dataFile.content (blogData), mutated in place by the attempt
  votesData,    \* votesFile.content (votesData), mutated in place by the attempt
  sha,          \* sha[p][path]: the sha p holds for path is the current one
  cur,          \* the path updateGitHubFile is writing
  retryCount,   \* updateGitHubFile: retryCount
  result,       \* what the invocation returned or threw
  \* history variables: they record what happened and decide nothing
  seen,         \* blogEntry.votes as the attempt read it, -1 before that
  issued,       \* the attempt has sent a write to GitHub
  committed,    \* the files the operation has committed, over all its attempts
  rival,        \* another request of the same blogId and ipHash ran beside it
  puts,         \* createOrUpdateFileContents calls sent in writing cur
  started,      \* the requests that have arrived, counted up to MaxTracked + 1
  origin,       \* the initial files, while started <= MaxTracked
  hist,         \* SpecSeq: the finished requests of the caller, in order
  \* the rate limiter
  rateLimitMap, \* ipHash -> [count, windowStart], for the ipHashes seen
  now,          \* Date.now()
  window,       \* history: per ipHash, its window by the clock and its calls
  last,         \* history: the last checkRateLimit call and its answer
  solo,         \* history: per ipHash, the map its calls alone would leave
  \* GET /api/votes
  listing       \* the handler of votes.js: [pc, ipHash, got, blogData,
                \* votesData, response]

storeVars == <<dataJson, votesJson>>
procVars == <<pc, req, attempt, got, blogData, votesData, sha, cur, retryCount,
              result>>
traceVars == <<seen, issued, committed, rival, puts>>
limiterVars == <<rateLimitMap, now, window, last, solo>>
vars == <<dataJson, votesJson, pc, req, attempt, got, blogData, votesData,
          sha, cur, retryCount, result, seen, issued, committed, rival, puts,
          started, origin, hist, rateLimitMap, now, window, last, solo,
          listing>>

\* ------------------------------------------------------------ file shapes

NoEntries == [i \in {} |-> 0]
NoVotes == [b \in Items |-> {}]
NoDataFile == [exists |-> FALSE, entries |-> NoEntries]
NoVotesFile == [exists |-> FALSE, votes |-> NoVotes]
NoReq == [kind |-> "none", blogId |-> "none", ipHash |-> "none"]
NoResult == [out |-> "none", newVoteCount |-> 0]
NoSha == [path \in Paths |-> FALSE]
Forgotten == [data |-> NoDataFile, votes |-> NoVotesFile]
NoWindow == [start |-> -1, calls |-> 0, allowed |-> 0]
NoCall == [ipHash |-> "none", at |-> 0, allowed |-> FALSE, opened |-> FALSE]

Active(p) == pc[p] \notin {"idle", "done"}

\* data.json and votes.json in full, as JSON.parse gives them to votes.js:
\* the entries in their order, some without a votes field; the ledger with
\* the keys it has.  Items are the entries the votes of this model go to.
ListIds == Items \cup {"b2"}
NoVotesField == -1
NoCatalog == [exists |-> FALSE, entries |-> <<>>]
NoLedger == [exists |-> FALSE, votes |-> [i \in {} |-> {}]]
NotListing ==
  [pc |-> "idle", ipHash |-> "none", got |-> {}, blogData |-> NoCatalog,
   votesData |-> NoLedger, response |-> <<>>, error |-> "none"]

\* ------------------------------------------------------------------ Init

Init ==
  /\ \E ex \in BOOLEAN, ids \in SUBSET Items, n \in 0..MaxInitVotes :
       dataJson = IF ex THEN [exists |-> TRUE, entries |-> [i \in ids |-> n]]
                        ELSE NoDataFile
  /\ \E ex \in BOOLEAN, f \in [Items -> SUBSET IpHashes] :
       votesJson = IF ex THEN [exists |-> TRUE, votes |-> f] ELSE NoVotesFile
  /\ pc = [p \in Procs |-> "idle"]
  /\ req = [p \in Procs |-> NoReq]
  /\ attempt = [p \in Procs |-> 0]
  /\ got = [p \in Procs |-> {}]
  /\ blogData = [p \in Procs |-> NoDataFile]
  /\ votesData = [p \in Procs |-> NoVotesFile]
  /\ sha = [p \in Procs |-> NoSha]
  /\ cur = [p \in Procs |-> VOTES_PATH]
  /\ retryCount = [p \in Procs |-> 0]
  /\ result = [p \in Procs |-> NoResult]
  /\ seen = [p \in Procs |-> -1]
  /\ issued = [p \in Procs |-> FALSE]
  /\ committed = [p \in Procs |-> {}]
  /\ rival = [p \in Procs |-> FALSE]
  /\ puts = [p \in Procs |-> 0]
  /\ started = 0
  /\ origin = [data |-> dataJson, votes |-> votesJson]
  /\ hist = <<>>
  /\ rateLimitMap = [h \in {} |-> NoWindow]
  /\ now = 0
  /\ window = [h \in IpHashes |-> NoWindow]
  /\ last = NoCall
  /\ solo = [h \in IpHashes |-> [k \in {} |-> NoWindow]]
  /\ listing = NotListing

\* ---------------------------------------------- processVote, processUnvote

\* Variant: the test looks at votes[blogId] and not at the caller's ipHash.
HasVotedAnyone(votes, b, h) == votes[b] # {}

\* votesData.votes[blogId][ipHash] is set (vote.js), or ?.[ipHash] (unvote.js).
HasVoted(votes, b, h) == h \in votes[b]

\* Variant: the vote is counted and not recorded.
RecordVoteDropped(votes, b, h) == votes

\* votesData.votes[blogId][ipHash] = Date.now()
RecordVote(votes, b, h) == [votes EXCEPT ![b] = @ \cup {h}]

\* Variant: the vote is discounted and its record kept.
RemoveVoteKept(votes, b, h) == votes

\* delete votesData.votes[blogId][ipHash]
RemoveVote(votes, b, h) == [votes EXCEPT ![b] = @ \ {h}]

\* blogEntry.votes = (blogEntry.votes || 0) + 1
Increment(n) == n + 1

\* Variant: no Math.max(0, ...).
DecrementUnclamped(n) == n - 1

\* blogEntry.votes = Math.max(0, (blogEntry.votes || 0) - 1)
Decrement(n) == IF n - 1 > 0 THEN n - 1 ELSE 0

\* blogData.entries.find(e => e.id === blogId)
FindEntry(entries, b) == b \in DOMAIN entries

\* Variant: an error that is no 409 is retried as a 409 is.
ThrownRetried(p, out) ==
  [pc |-> IF attempt[p] + 1 < MAX_RETRIES THEN "backoff" ELSE "done",
   attempt |-> attempt[p] + 1,
   blogData |-> NoDataFile, votesData |-> NoVotesFile, seen |-> -1,
   result |-> IF attempt[p] + 1 < MAX_RETRIES
                THEN NoResult ELSE [out |-> out, newVoteCount |-> 0]]

\* An attempt throws an error that is no 409: catch (err) { attempt++; throw err }.
Thrown(p, out) ==
  [pc |-> "done", attempt |-> attempt[p] + 1,
   blogData |-> NoDataFile, votesData |-> NoVotesFile, seen |-> -1,
   result |-> [out |-> out, newVoteCount |-> 0]]

\* Variant: the rejection is thrown as a 409 is, and the attempt is retried.
ReturnedRetried(p, out) ==
  [pc |-> IF attempt[p] + 1 < MAX_RETRIES THEN "backoff" ELSE "done",
   attempt |-> attempt[p] + 1,
   blogData |-> NoDataFile, votesData |-> NoVotesFile, seen |-> -1,
   result |-> IF attempt[p] + 1 < MAX_RETRIES
                THEN NoResult ELSE [out |-> out, newVoteCount |-> 0]]

\* An attempt returns { error, alreadyVoted / notVoted, status: 400 }.
Returned(p, out) ==
  [pc |-> "done", attempt |-> attempt[p],
   blogData |-> NoDataFile, votesData |-> NoVotesFile, seen |-> -1,
   result |-> [out |-> out, newVoteCount |-> 0]]

\* An attempt goes on to its writes with the two contents it has changed.
Proceed(p, entries, votes, n) ==
  [pc |-> "put", attempt |-> attempt[p],
   blogData |-> [exists |-> TRUE, entries |-> entries],
   votesData |-> [exists |-> TRUE, votes |-> votes], seen |-> n,
   result |-> NoResult]

\* Variant: processVote throws without votes.json, as processUnvote does.
VoteChecksStrict(p, dataFile, votesFile) ==
  LET b == req[p].blogId
      h == req[p].ipHash
  IN IF ~dataFile.exists THEN Thrown(p, "dataFileNotFound")
     ELSE IF ~votesFile.exists THEN Thrown(p, "votesFileNotFound")
     ELSE IF ~FindEntry(dataFile.entries, b) THEN Thrown(p, "blogNotFound")
     ELSE IF HasVoted(votesFile.votes, b, h) THEN Returned(p, "alreadyVoted")
     ELSE Proceed(p, [dataFile.entries EXCEPT ![b] = Increment(@)],
                  RecordVote(votesFile.votes, b, h), dataFile.entries[b])

\* processVote, from the two files read to the first write.
VoteChecks(p, dataFile, votesFile) ==
  LET b == req[p].blogId
      h == req[p].ipHash
  IN IF ~dataFile.exists THEN Thrown(p, "dataFileNotFound")
     ELSE IF ~FindEntry(dataFile.entries, b) THEN Thrown(p, "blogNotFound")
     ELSE IF HasVoted(votesFile.votes, b, h) THEN Returned(p, "alreadyVoted")
     ELSE Proceed(p, [dataFile.entries EXCEPT ![b] = Increment(@)],
                  RecordVote(votesFile.votes, b, h), dataFile.entries[b])

\* processUnvote, from the two files read to the first write.
UnvoteChecks(p, dataFile, votesFile) ==
  LET b == req[p].blogId
      h == req[p].ipHash
  IN IF ~dataFile.exists THEN Thrown(p, "dataFileNotFound")
     ELSE IF ~votesFile.exists THEN Thrown(p, "votesFileNotFound")
     ELSE IF ~FindEntry(dataFile.entries, b) THEN Thrown(p, "blogNotFound")
     ELSE IF ~HasVoted(votesFile.votes, b, h) THEN Returned(p, "notVoted")
     ELSE Proceed(p, [dataFile.entries EXCEPT ![b] = Decrement(@)],
                  RemoveVote(votesFile.votes, b, h), dataFile.entries[b])

Checks(p, dataFile, votesFile) ==
  IF req[p].kind = "vote" THEN VoteChecks(p, dataFile, votesFile)
                          ELSE UnvoteChecks(p, dataFile, votesFile)

\* Variant: data.json is written first, and alone.
FirstWriteData == DATA_PATH

\* The file of the first updateGitHubFile call of an attempt.
FirstWrite == VOTES_PATH

\* Variant: one more write after the last conflict.
CanRetryWriteLong(n) == n <= MAX_RETRIES

\* Variant: the write is sent again after every conflict.
CanRetryWriteAlways(n) == n >= 0

\* updateGitHubFile: err.status === 409 && retryCount < MAX_RETRIES
CanRetryWrite(n) == n < MAX_RETRIES

\* Variant: the last attempt is not made.
CanRetryAttemptShort(n) == n < MAX_RETRIES - 1

\* processVote's catch, attempt already incremented: attempt < MAX_RETRIES
CanRetryAttempt(n) == n < MAX_RETRIES

\* --------------------------------------------------------------- actions

\* A request arrives and processVote / processUnvote is called.
StartOp(p, kind, b, h) ==
  /\ ~Active(p)
  /\ pc' = [pc EXCEPT ![p] = "read"]
  /\ req' = [req EXCEPT ![p] = [kind |-> kind, blogId |-> b, ipHash |-> h]]
  /\ attempt' = [attempt EXCEPT ![p] = 0]
  /\ got' = [got EXCEPT ![p] = {}]
  /\ blogData' = [blogData EXCEPT ![p] = NoDataFile]
  /\ votesData' = [votesData EXCEPT ![p] = NoVotesFile]
  /\ sha' = [sha EXCEPT ![p] = NoSha]
  /\ cur' = [cur EXCEPT ![p] = FirstWrite]
  /\ retryCount' = [retryCount EXCEPT ![p] = 0]
  /\ result' = [result EXCEPT ![p] = NoResult]
  /\ seen' = [seen EXCEPT ![p] = -1]
  /\ issued' = [issued EXCEPT ![p] = FALSE]
  /\ committed' = [committed EXCEPT ![p] = {}]
  /\ puts' = [puts EXCEPT ![p] = 0]
  /\ rival' = [q \in Procs |->
       IF q = p
         THEN \E r \in Procs \ {p} :
                Active(r) /\ req[r].blogId = b /\ req[r].ipHash = h
         ELSE rival[q] \/ (Active(q) /\ req[q].blogId = b /\ req[q].ipHash = h)]
  /\ UNCHANGED storeVars

\* Requests arrive at any time, on any free invocation.
Start(p, kind, b, h) ==
  /\ StartOp(p, kind, b, h)
  /\ started' = IF started < MaxTracked + 1 THEN started + 1 ELSE started
  /\ origin' = IF started < MaxTracked THEN origin ELSE Forgotten
  /\ UNCHANGED <<hist, limiterVars, listing>>

\* One of the two getGitHubFile calls of Promise.all answers; when both have,
\* the attempt runs on to its first await (the write of votes.json) or ends.
\* A vote does not read data.json while an entry stands at MaxVotes.
ReadFile(p, path) ==
  /\ pc[p] = "read"
  /\ path \notin got[p]
  /\ (path = DATA_PATH /\ req[p].kind = "vote")
       => \A i \in DOMAIN dataJson.entries : dataJson.entries[i] < MaxVotes
  /\ LET dataFile == IF path = DATA_PATH THEN dataJson ELSE blogData[p]
         votesFile == IF path = VOTES_PATH THEN votesJson ELSE votesData[p]
         next == Checks(p, dataFile, votesFile)
     IN IF got[p] \cup {path} = Paths
          THEN /\ pc' = [pc EXCEPT ![p] = next.pc]
               /\ attempt' = [attempt EXCEPT ![p] = next.attempt]
               /\ blogData' = [blogData EXCEPT ![p] = next.blogData]
               /\ votesData' = [votesData EXCEPT ![p] = next.votesData]
               /\ result' = [result EXCEPT ![p] = next.result]
               /\ seen' = [seen EXCEPT ![p] = next.seen]
               /\ got' = [got EXCEPT ![p] = {}]
               /\ sha' = [sha EXCEPT ![p] =
                           IF next.pc = "put" THEN [@ EXCEPT ![path] = TRUE]
                                              ELSE NoSha]
               /\ puts' = [puts EXCEPT ![p] =
                            IF next.pc = "put" THEN 1 ELSE 0]
          ELSE /\ got' = [got EXCEPT ![p] = @ \cup {path}]
               /\ blogData' = [blogData EXCEPT ![p] = dataFile]
               /\ votesData' = [votesData EXCEPT ![p] = votesFile]
               /\ sha' = [sha EXCEPT ![p][path] = TRUE]
               /\ UNCHANGED <<pc, attempt, result, seen, puts>>
  /\ cur' = [cur EXCEPT ![p] = FirstWrite]
  /\ retryCount' = [retryCount EXCEPT ![p] = 0]
  /\ UNCHANGED <<storeVars, req, issued, committed, rival, started, origin,
                 hist, limiterVars, listing>>

\* A commit of path gives it a new sha: every sha held for it is an old one.
Committed(path) ==
  [q \in Procs |-> [sha[q] EXCEPT ![path] = FALSE]]

\* updateGitHubFile: createOrUpdateFileContents answers the write of cur[p],
\* with success when the sha sent is the file's current one, else with 409.
PutFile(p) ==
  /\ pc[p] = "put"
  /\ issued' = [issued EXCEPT ![p] = TRUE]
  /\ IF sha[p][cur[p]]
       THEN /\ sha' = Committed(cur[p])
            /\ committed' = [committed EXCEPT ![p] = @ \cup {cur[p]}]
            /\ IF cur[p] = VOTES_PATH
                 THEN \* votes.json is written: on to data.json
                      /\ votesJson' = votesData[p]
                      /\ cur' = [cur EXCEPT ![p] = DATA_PATH]
                      /\ puts' = [puts EXCEPT ![p] = 1]
                      /\ UNCHANGED <<dataJson, pc, result, blogData, votesData>>
                 ELSE \* data.json is written: return { success: true, ... }
                      /\ dataJson' = blogData[p]
                      /\ pc' = [pc EXCEPT ![p] = "done"]
                      /\ result' = [result EXCEPT ![p] =
                           [out |-> "success",
                            newVoteCount |-> blogData[p].entries[req[p].blogId]]]
                      /\ blogData' = [blogData EXCEPT ![p] = NoDataFile]
                      /\ votesData' = [votesData EXCEPT ![p] = NoVotesFile]
                      /\ puts' = [puts EXCEPT ![p] = 0]
                      /\ UNCHANGED <<votesJson, cur>>
            /\ retryCount' = [retryCount EXCEPT ![p] = 0]
            /\ UNCHANGED <<attempt, seen>>
       ELSE /\ IF CanRetryWrite(retryCount[p])
                 THEN \* wait 500 ms, then fetch the file again
                      /\ pc' = [pc EXCEPT ![p] = "refetch"]
                      /\ UNCHANGED <<attempt, result, blogData, votesData,
                                     retryCount, sha, cur, seen, puts>>
                 ELSE \* throw err: the 409 reaches the catch of processVote
                      /\ attempt' = [attempt EXCEPT ![p] = @ + 1]
                      /\ IF CanRetryAttempt(attempt[p] + 1)
                           THEN /\ pc' = [pc EXCEPT ![p] = "backoff"]
                                /\ UNCHANGED result
                           ELSE /\ pc' = [pc EXCEPT ![p] = "done"]
                                /\ result' = [result EXCEPT ![p] =
                                     [out |-> "conflict", newVoteCount |-> 0]]
                      /\ blogData' = [blogData EXCEPT ![p] = NoDataFile]
                      /\ votesData' = [votesData EXCEPT ![p] = NoVotesFile]
                      /\ retryCount' = [retryCount EXCEPT ![p] = 0]
                      /\ sha' = [sha EXCEPT ![p] = NoSha]
                      /\ cur' = [cur EXCEPT ![p] = FirstWrite]
                      /\ seen' = [seen EXCEPT ![p] = -1]
                      /\ puts' = [puts EXCEPT ![p] = 0]
            /\ UNCHANGED <<storeVars, committed>>
  /\ UNCHANGED <<req, got, rival, started, origin, hist, limiterVars,
                 listing>>

\* updateGitHubFile after a 409: getGitHubFile answers, freshFile.sha is kept
\* and the content of the first call is sent again (retryCount + 1).
Refetch(p) ==
  /\ pc[p] = "refetch"
  /\ sha' = [sha EXCEPT ![p][cur[p]] = TRUE]
  /\ retryCount' = [retryCount EXCEPT ![p] = @ + 1]
  /\ pc' = [pc EXCEPT ![p] = "put"]
  /\ puts' = [puts EXCEPT ![p] = @ + 1]
  /\ UNCHANGED <<storeVars, req, attempt, got, blogData, votesData, cur,
                 result, seen, issued, committed, rival, started, origin,
                 hist, limiterVars, listing>>

\* processVote's catch: the wait of 1000 * attempt ms is over, and the loop
\* goes round (continue): a new attempt.
Backoff(p) ==
  /\ pc[p] = "backoff"
  /\ pc' = [pc EXCEPT ![p] = "read"]
  /\ issued' = [issued EXCEPT ![p] = FALSE]
  /\ UNCHANGED <<storeVars, req, attempt, got, blogData, votesData, sha, cur,
                 retryCount, result, seen, committed, rival, puts, started,
                 origin, hist, limiterVars, listing>>

Next ==
  \E p \in Procs :
    \/ \E kind \in Kinds, b \in Items, h \in IpHashes : Start(p, kind, b, h)
    \/ \E path \in Paths : ReadFile(p, path)
    \/ PutFile(p)
    \/ Refetch(p)
    \/ Backoff(p)

Spec == Init /\ [][Next]_vars

\* ------------------------------------------------- one caller, no other writer

\* What a finished request leaves behind: its answer and the two files.
Finished(p) ==
  [req |-> req[p], result |-> result[p], data |-> dataJson, votes |-> votesJson]

\* The caller sends its next request once the one before has been answered,
\* and nobody else writes.
StartSeq(p, kind, b, h) ==
  /\ \A q \in Procs \ {p} : pc[q] = "idle"
  /\ started < MaxSeqOps
  /\ StartOp(p, kind, b, h)
  /\ started' = started + 1
  /\ hist' = IF pc[p] = "done" THEN Append(hist, Finished(p)) ELSE hist
  /\ UNCHANGED <<origin, limiterVars, listing>>

\* With one request in flight no write is answered with 409, so Refetch and
\* Backoff are never enabled here.
NextSeq ==
  \E p \in Procs :
    \/ \E kind \in Kinds, b \in Items, h \in IpHashes : StartSeq(p, kind, b, h)
    \/ \E path \in Paths : ReadFile(p, path)
    \/ PutFile(p)

SpecSeq == Init /\ [][NextSeq]_vars

\* ---------------------------------------------------------- rate limiter

\* Variant: the window ends one millisecond early.
ExpiredAtEnd(t, windowStart) == t - windowStart >= RATE_LIMIT_WINDOW

\* checkRateLimit: now - userLimits.windowStart > RATE_LIMIT_WINDOW
Expired(t, windowStart) == t - windowStart > RATE_LIMIT_WINDOW

\* Variant: the call that finds the count at the capacity still passes.
ExhaustedAbove(count) == count > MAX_VOTES_PER_WINDOW

\* checkRateLimit: userLimits.count >= MAX_VOTES_PER_WINDOW
Exhausted(count) == count >= MAX_VOTES_PER_WINDOW

\* Variant: the call is counted before the count is compared, refused or not.
CheckRateLimitCounting(map, h, t) ==
  LET userLimits == IF h \in DOMAIN map THEN map[h]
                                        ELSE [count |-> 0, windowStart |-> t]
      reset == IF Expired(t, userLimits.windowStart)
                 THEN [count |-> 0, windowStart |-> t]
                 ELSE userLimits
  IN [allowed |-> ~Exhausted(reset.count),
      map |-> [k \in DOMAIN map \cup {h} |->
                 IF k = h THEN [reset EXCEPT !.count = @ + 1] ELSE map[k]]]

\* Variant: a window that has run out takes the entries of the others along.
CheckRateLimitClearing(map, h, t) ==
  LET known == h \in DOMAIN map
      userLimits == IF known THEN map[h] ELSE [count |-> 0, windowStart |-> t]
      expired == Expired(t, userLimits.windowStart)
      reset == IF expired THEN [count |-> 0, windowStart |-> t] ELSE userLimits
      kept == IF expired THEN {h} ELSE DOMAIN map \cup {h}
  IN IF Exhausted(reset.count)
       THEN [allowed |-> FALSE, map |-> map]
       ELSE [allowed |-> TRUE,
             map |-> [k \in kept |-> IF k = h THEN [reset EXCEPT !.count = @ + 1]
                                              ELSE map[k]]]

\* checkRateLimit(ipHash) at time t: the answer and the map it leaves.  The
\* object it resets is the one the map holds, when the map holds one.
CheckRateLimit(map, h, t) ==
  LET known == h \in DOMAIN map
      userLimits == IF known THEN map[h] ELSE [count |-> 0, windowStart |-> t]
      reset == IF Expired(t, userLimits.windowStart)
                 THEN [count |-> 0, windowStart |-> t]
                 ELSE userLimits
      Set(v) == [k \in DOMAIN map \cup {h} |-> IF k = h THEN v ELSE map[k]]
  IN IF Exhausted(reset.count)
       THEN [allowed |-> FALSE, map |-> IF known THEN Set(reset) ELSE map]
       ELSE [allowed |-> TRUE, map |-> Set([reset EXCEPT !.count = @ + 1])]

\* The instants of the clock: the first two milliseconds of each window length.
Instants == {k * RATE_LIMIT_WINDOW + d : k \in 0..MaxWindows, d \in 0..1}

\* The window of an identity by the clock alone: it opens with the identity's
\* first call, and with its first call made more than RATE_LIMIT_WINDOW after
\* the opening of the window before.
Opens(h, t) ==
  window[h].start = -1 \/ t - window[h].start > RATE_LIMIT_WINDOW

\* checkRateLimit(h) is called now, and answers.
Limited(h) ==
  /\ Opens(h, now) \/ window[h].calls < MaxCalls
  /\ LET answer == CheckRateLimit(rateLimitMap, h, now)
         was == IF Opens(h, now) THEN [start |-> now, calls |-> 0, allowed |-> 0]
                                 ELSE window[h]
     IN /\ rateLimitMap' = answer.map
        /\ window' = [window EXCEPT ![h] =
             [start |-> was.start, calls |-> was.calls + 1,
              allowed |-> was.allowed + IF answer.allowed THEN 1 ELSE 0]]
        /\ last' = [ipHash |-> h, at |-> now, allowed |-> answer.allowed,
                    opened |-> Opens(h, now)]
  /\ solo' = [solo EXCEPT ![h] = CheckRateLimit(@, h, now).map]
  /\ now' = now

\* A vote request of h reaches checkRateLimit.
Allow(h) ==
  /\ Limited(h)
  /\ UNCHANGED <<storeVars, procVars, traceVars, started, origin, hist,
                 listing>>

\* Time passes.
Tick(t) ==
  /\ t > now
  /\ now' = t
  /\ UNCHANGED <<storeVars, procVars, traceVars, started, origin, hist,
                 rateLimitMap, window, last, solo, listing>>

NextLimiter ==
  \/ \E h \in IpHashes : Allow(h)
  \/ \E t \in Instants : Tick(t)

InitLimiter ==
  /\ Init
  /\ dataJson = [exists |-> TRUE, entries |-> [i \in Items |-> 0]]
  /\ votesJson = NoVotesFile

SpecLimiter == InitLimiter /\ [][NextLimiter]_vars

\* ------------------------------------------------------------ the handlers

\* req.body.blogId: an item, or nothing.
BlogIds == Items \cup {""}

\* Variant: the handler answers after the store has been read.
RefusalDeferred(out) == [pc |-> "read", result |-> NoResult]

\* The handler answers by itself: res.status(400 / 429).json({ error }).
Refusal(out) ==
  [pc |-> "done", result |-> [out |-> out, newVoteCount |-> 0]]

\* The handler returns before processVote / processUnvote is called.
Refused(p, kind, b, h, refusal) ==
  /\ ~Active(p)
  /\ pc' = [pc EXCEPT ![p] = refusal.pc]
  /\ req' = [req EXCEPT ![p] = [kind |-> kind, blogId |-> b, ipHash |-> h]]
  /\ attempt' = [attempt EXCEPT ![p] = 0]
  /\ got' = [got EXCEPT ![p] = {}]
  /\ blogData' = [blogData EXCEPT ![p] = NoDataFile]
  /\ votesData' = [votesData EXCEPT ![p] = NoVotesFile]
  /\ sha' = [sha EXCEPT ![p] = NoSha]
  /\ cur' = [cur EXCEPT ![p] = FirstWrite]
  /\ retryCount' = [retryCount EXCEPT ![p] = 0]
  /\ result' = [result EXCEPT ![p] = refusal.result]
  /\ seen' = [seen EXCEPT ![p] = -1]
  /\ issued' = [issued EXCEPT ![p] = FALSE]
  /\ committed' = [committed EXCEPT ![p] = {}]
  /\ puts' = [puts EXCEPT ![p] = 0]
  /\ UNCHANGED <<storeVars, rival>>

\* Variant: the handler of unvote.js checks the rate limit as vote.js does.
UnvoteLimitedToo(h) == Limited(h)

\* The handler of unvote.js makes no call of checkRateLimit.
UnvoteLimiter(h) == UNCHANGED limiterVars

\* module.exports of vote.js: blogId, then the rate limit, then processVote.
VoteHandler(p, b, h) ==
  IF b = ""
    THEN /\ Refused(p, "vote", b, h, Refusal("blogIdRequired"))
         /\ UNCHANGED limiterVars
    ELSE /\ Limited(h)
         /\ IF CheckRateLimit(rateLimitMap, h, now).allowed
              THEN StartOp(p, "vote", b, h)
              ELSE Refused(p, "vote", b, h, Refusal("rateLimited"))

\* module.exports of unvote.js: blogId, then processUnvote; no rate limit.
UnvoteHandler(p, b, h) ==
  /\ IF b = "" THEN Refused(p, "unvote", b, h, Refusal("blogIdRequired"))
               ELSE StartOp(p, "unvote", b, h)
  /\ UnvoteLimiter(h)

\* POST /api/vote, with no other request in flight.
VoteRequest(p, b, h) ==
  /\ \A q \in Procs \ {p} : pc[q] = "idle"
  /\ VoteHandler(p, b, h)
  /\ UNCHANGED <<started, origin, hist, listing>>

\* POST /api/unvote, with no other request in flight.
UnvoteRequest(p, b, h) ==
  /\ \A q \in Procs \ {p} : pc[q] = "idle"
  /\ UnvoteHandler(p, b, h)
  /\ UNCHANGED <<started, origin, hist, listing>>

\* One request at a time: no write is answered with 409.
NextHandler ==
  \E p \in Procs :
    \/ \E b \in BlogIds, h \in IpHashes : VoteRequest(p, b, h)
    \/ \E b \in BlogIds, h \in IpHashes : UnvoteRequest(p, b, h)
    \/ \E path \in Paths : ReadFile(p, path)
    \/ PutFile(p)

SpecHandler == Init /\ [][NextHandler]_vars

\* ------------------------------------------------------------ GET /api/votes

\* An entry of data.json: its id and its votes field, when it has one.
Entries ==
  [id : ListIds, votes : {NoVotesField} \cup 0..MaxVotes]

\* The lists of entries data.json may hold, no id twice.
EntryLists ==
  {e \in UNION {[1..n -> Entries] : n \in 0..Cardinality(ListIds)} :
     \A j, k \in 1..Len(e) : e[j].id = e[k].id => j = k}

\* entry.votes || 0
VotesOf(entry) == IF entry.votes = NoVotesField THEN 0 ELSE entry.votes

\* What getGitHubFile(DATA_PATH) of votes.js may return when the store holds
\* file: null, or the entries in full, those of Items with the votes stored.
Catalogs(file) ==
  IF ~file.exists THEN {NoCatalog}
  ELSE {[exists |-> TRUE, entries |-> e] : e \in
          {e \in EntryLists :
             /\ \A i \in Items :
                  (i \in DOMAIN file.entries) <=> (\E k \in 1..Len(e) : e[k].id = i)
             /\ \A k \in 1..Len(e) :
                  IF e[k].id \in Items
                    THEN VotesOf(e[k]) = file.entries[e[k].id]
                    ELSE e[k].votes \in {NoVotesField, 1}}}

\* What getGitHubFile(VOTES_PATH) of votes.js may return when the store holds
\* file: null, or the ledger in full; an item nobody voted for may have no key.
Ledgers(file) ==
  IF ~file.exists THEN {NoLedger}
  ELSE {[exists |-> TRUE, votes |-> v] : v \in
          {v \in UNION {[K -> SUBSET IpHashes] : K \in SUBSET ListIds} :
             /\ \A i \in Items :
                  IF i \in DOMAIN v THEN v[i] = file.votes[i]
                                    ELSE file.votes[i] = {}
             /\ \A i \in DOMAIN v \ Items : Cardinality(v[i]) = 1}}

\* Variant: userVoted tells that somebody voted.
ListVotesAnyone(catalog, ledger, h) ==
  [k \in 1..Len(catalog.entries) |->
     LET entry == catalog.entries[k]
     IN [id |-> entry.id,
         votes |-> VotesOf(entry),
         userVoted |-> /\ ledger.exists
                       /\ entry.id \in DOMAIN ledger.votes
                       /\ ledger.votes[entry.id] # {}]]

\* votes = votesData?.votes || {}; blogData.entries.map(entry => ({ id,
\* votes: entry.votes || 0, userVoted: votes[entry.id]?.[ipHash] ? true : false }))
ListVotes(catalog, ledger, h) ==
  [k \in 1..Len(catalog.entries) |->
     LET entry == catalog.entries[k]
     IN [id |-> entry.id,
         votes |-> VotesOf(entry),
         userVoted |-> /\ ledger.exists
                       /\ entry.id \in DOMAIN ledger.votes
                       /\ h \in ledger.votes[entry.id]]]

\* GET /api/votes arrives: the two reads are sent.
ListRequest(h) ==
  /\ listing.pc \in {"idle", "done"}
  /\ listing' = [NotListing EXCEPT !.pc = "read", !.ipHash = h]
  /\ UNCHANGED <<storeVars, procVars, traceVars, started, origin, hist,
                 limiterVars>>

\* One of the two getGitHubFile calls of Promise.all answers; when both have,
\* the handler answers: 500 without data.json, else the list.
ListRead(path) ==
  /\ listing.pc = "read"
  /\ path \notin listing.got
  /\ \E blog \in IF path = DATA_PATH THEN Catalogs(dataJson)
                                        ELSE {listing.blogData},
        votes \in IF path = VOTES_PATH THEN Ledgers(votesJson)
                                        ELSE {listing.votesData} :
       LET read == [listing EXCEPT !.got = @ \cup {path},
                                   !.blogData = blog, !.votesData = votes]
       IN listing' =
            IF read.got # Paths THEN read
            ELSE IF ~blog.exists
              THEN [read EXCEPT !.pc = "done", !.error = "dataFileNotFound"]
              ELSE [read EXCEPT !.pc = "done",
                                !.response = ListVotes(blog, votes, listing.ipHash)]
  /\ UNCHANGED <<storeVars, procVars, traceVars, started, origin, hist,
                 limiterVars>>

\* The caller of SpecSeq, for MaxListOps requests.
StartList(p, kind, b, h) ==
  /\ started < MaxListOps
  /\ StartSeq(p, kind, b, h)

\* The list is asked for while one caller votes and unvotes.
NextList ==
  \/ \E h \in IpHashes : ListRequest(h)
  \/ \E path \in Paths : ListRead(path)
  \/ \E p \in Procs :
       \/ \E kind \in Kinds, b \in Items, h \in IpHashes : StartList(p, kind, b, h)
       \/ \E path \in Paths : ReadFile(p, path)
       \/ PutFile(p)

SpecList == Init /\ [][NextList]_vars

\* ====================================================================
\* Properties
\* ====================================================================

Quiescent == \A p \in Procs : ~Active(p)

\* The two invocations have each answered one request, the only two that
\* ever arrived, and the files they started from are known.
TwoDone ==
  /\ started = 2
  /\ \A p \in Procs : pc[p] = "done"

\* voteCount of every item equals the number of identities in its ledger.
Consistent(data, votes) ==
  \A i \in DOMAIN data.entries : data.entries[i] = Cardinality(votes.votes[i])

\* Two castVote of one existing item by two identities that have not voted,
\* both files being there from the start.
TwoCastsDifferentIdentities(b) ==
  /\ TwoDone
  /\ \A p \in Procs : req[p].kind = "vote" /\ req[p].blogId = b
  /\ \A p, q \in Procs : p # q => req[p].ipHash # req[q].ipHash
  /\ origin.data.exists /\ b \in DOMAIN origin.data.entries
  /\ origin.votes.exists
  /\ \A p \in Procs : req[p].ipHash \notin origin.votes.votes[b]

\* C1: two concurrent castVote of the same existing item by two different
\* identities that have not voted both return success, and once both have
\* finished the stored voteCount is the initial one plus 2.
C1_NoLostIncrement ==
  \A b \in Items :
    TwoCastsDifferentIdentities(b) =>
      /\ \A p \in Procs : result[p].out = "success"
      /\ dataJson.entries[b] = origin.data.entries[b] + 2

\* castVote operations only, all of one existing item, all finished, both
\* files being there from the start.
OnlyCastsOf(b) ==
  /\ TwoDone
  /\ \A p \in Procs : req[p].kind = "vote" /\ req[p].blogId = b
  /\ origin.data.exists /\ b \in DOMAIN origin.data.entries
  /\ origin.votes.exists

\* C2: under any interleaving of concurrent castVote operations, at quiescence
\* the stored voteCount is at most the initial one plus the number of distinct
\* identities that cast a vote, and at most one of several castVote calls of
\* one identity returns success.
C2_NoDoubleCount ==
  \A b \in Items :
    OnlyCastsOf(b) =>
      /\ dataJson.entries[b] <=
           origin.data.entries[b] + Cardinality({req[p].ipHash : p \in Procs})
      /\ \A p, q \in Procs :
           (p # q /\ req[p].ipHash = req[q].ipHash)
             => ~(result[p].out = "success" /\ result[q].out = "success")

\* C7: starting with voteCount equal to the size of the ledger for every
\* item, once every operation has finished voteCount again equals the size of
\* the ledger for every item.
C7_ConsistentAtQuiescence ==
  ( /\ started <= MaxTracked
    /\ origin.data.exists /\ origin.votes.exists
    /\ Consistent(origin.data, origin.votes)
    /\ Quiescent )
  => Consistent(dataJson, votesJson)

\* C9: an operation ends with a conflict only when its attempts are used up,
\* and an operation that has itself committed votes.json in an earlier attempt
\* does not end with "already voted" / "not voted" on account of that write
\* (no other request of its blogId and ipHash ran beside it).
C9_NoRejectionAfterOwnLedgerWrite ==
  \A p \in Procs :
    pc[p] = "done" =>
      /\ result[p].out = "conflict" => attempt[p] = MAX_RETRIES
      /\ (result[p].out \in {"alreadyVoted", "notVoted"} /\ ~rival[p])
           => VOTES_PATH \notin committed[p]

\* ------------------------------------------------------ the end of the reads

\* In this step the second getGitHubFile of p's attempt answers.
ReadsDone(p) == pc[p] = "read" /\ got[p] # {} /\ got'[p] = {}

\* The two files as the attempt of p has read them, at that step.
DataRead(p) == IF DATA_PATH \in got[p] THEN blogData[p] ELSE dataJson
VotesRead(p) == IF VOTES_PATH \in got[p] THEN votesData[p] ELSE votesJson

\* The attempt of p ends in this step with out, having written nothing.
EndsWith(p, out) ==
  /\ pc'[p] = "done"
  /\ result'[p].out = out
  /\ ~issued'[p]
  /\ dataJson' = dataJson
  /\ votesJson' = votesJson

\* retractVote of an existing item by an identity with no entry under it.
RetractWithoutEntry(p) ==
  /\ ReadsDone(p)
  /\ req[p].kind = "unvote"
  /\ DataRead(p).exists
  /\ req[p].blogId \in DOMAIN DataRead(p).entries
  /\ req[p].ipHash \notin VotesRead(p).votes[req[p].blogId]

C6_NeverNegative ==
  /\ \A i \in DOMAIN dataJson.entries : dataJson.entries[i] >= 0
  /\ \A p \in Procs :
       (req[p].kind = "unvote" /\ seen[p] = 0) =>
         /\ pc[p] \in {"put", "refetch"} \/ result[p].out = "success"
         /\ pc[p] \in {"put", "refetch"}
              => blogData[p].entries[req[p].blogId] = 0
         /\ pc[p] = "done" => result[p].newVoteCount = 0

C6_Witness ==
  \E p \in Procs :
    /\ pc[p] = "done" /\ req[p].kind = "unvote" /\ seen[p] = 0
    /\ result[p] = [out |-> "success", newVoteCount |-> 0]
    /\ dataJson.entries[req[p].blogId] = 0

\* What the checks of processVote / processUnvote reject, in their order, for
\* the files the attempt of p has read; "none" when they reject nothing.
Rejection(p) ==
  LET d == DataRead(p)
      v == VotesRead(p)
      b == req[p].blogId
      h == req[p].ipHash
  IN IF ~d.exists \/ (req[p].kind = "unvote" /\ ~v.exists) THEN "none"
     ELSE IF b \notin DOMAIN d.entries THEN "blogNotFound"
     ELSE IF req[p].kind = "vote" /\ h \in v.votes[b] THEN "alreadyVoted"
     ELSE IF req[p].kind = "unvote" /\ h \notin v.votes[b] THEN "notVoted"
     ELSE "none"

Terminal == {"blogNotFound", "alreadyVoted", "notVoted"}

\* C10: "not found", "already voted" and "not voted" end the operation in the
\* attempt that detects them: no further attempt, no wait, and no read or
\* write after the two reads of that attempt.
C10_TerminalRejections ==
  /\ [](\A p \in Procs :
          result[p].out \in Terminal => pc[p] = "done" /\ ~issued[p])
  /\ [][\A p \in Procs :
          /\ (ReadsDone(p) /\ Rejection(p) # "none")
               => EndsWith(p, Rejection(p))
          /\ (pc[p] = "done" /\ result[p].out \in Terminal /\ pc'[p] # "done")
               => (pc'[p] = "read" /\ attempt'[p] = 0 /\ result'[p] = NoResult)
     ]_vars

\* A rejection found by a second attempt, after a write of the first had
\* used up its retries.
C10_Witness ==
  \E p \in Procs :
    /\ pc[p] = "done" /\ result[p].out \in {"alreadyVoted", "notVoted"}
    /\ attempt[p] = 1 /\ ~issued[p]

\* ------------------------------------------------------ the outer attempts

\* The timer of a backoff fires, and so do the answers of the store: every
\* step of an invocation that can be taken is taken in the end.
Fairness ==
  \A p \in Procs :
    /\ WF_vars(Backoff(p))
    /\ WF_vars(Refetch(p))
    /\ WF_vars(PutFile(p))
    /\ WF_vars(\E path \in Paths : ReadFile(p, path))

\* Two files to begin with, an item in data.json and nobody's vote.
InitFair ==
  /\ Init
  /\ dataJson = [exists |-> TRUE, entries |-> [i \in Items |-> 0]]
  /\ votesJson = [exists |-> TRUE, votes |-> NoVotes]

\* One invocation serves one request, the other any number of them.
StartFair(p, kind, b, h) ==
  /\ pc[p] = "idle" \/ p # CHOOSE q \in Procs : TRUE
  /\ Start(p, kind, b, h)

NextFair ==
  \E p \in Procs :
    \/ \E kind \in Kinds, b \in Items, h \in IpHashes : StartFair(p, kind, b, h)
    \/ \E path \in Paths : ReadFile(p, path)
    \/ PutFile(p)
    \/ Refetch(p)
    \/ Backoff(p)

SpecFair == InitFair /\ [][NextFair]_vars /\ Fairness

\* In this step a write of p is answered 409 with no sub-retry left: the
\* error reaches the catch of processVote / processUnvote.
ConflictRaised(p) == pc[p] = "put" /\ attempt'[p] = attempt[p] + 1

\* C11: an operation ends with a conflict only with MAX_RETRIES attempts
\* made; every attempt goes to its writes from a read of both files made in
\* that attempt; a conflict raised in an attempt below the last puts the
\* operation in its backoff, ending nothing, and the backoff leads to the
\* reads of a further attempt.
C11_ConflictAfterBudget ==
  /\ [](\A p \in Procs :
          (pc[p] = "done" /\ result[p].out = "conflict")
            => attempt[p] = MAX_RETRIES)
  /\ [][\A p \in Procs :
          /\ ConflictRaised(p) =>
               IF attempt'[p] < MAX_RETRIES
                 THEN pc'[p] = "backoff" /\ result'[p] = NoResult
                 ELSE pc'[p] = "done" /\ result'[p].out = "conflict"
          /\ (pc[p] = "backoff" /\ pc'[p] # "backoff")
               => /\ pc'[p] = "read" /\ got'[p] = {}
                  /\ attempt'[p] = attempt[p]
                  /\ dataJson' = dataJson /\ votesJson' = votesJson
          /\ (pc[p] = "read" /\ pc'[p] = "put")
               => \E path \in Paths : got[p] = Paths \ {path}
     ]_vars
  /\ \A p \in Procs : (pc[p] = "backoff") ~> (pc[p] = "read")

\* An operation that met the conflict in each of its MAX_RETRIES attempts.
C11_Witness ==
  \E p \in Procs :
    /\ pc[p] = "done" /\ result[p].out = "conflict"
    /\ attempt[p] = MAX_RETRIES

\* ------------------------------------------------------ the store failing

\* getGitHubFile: getContent fails with a status that is not 404, the error
\* is thrown again, Promise.all rejects and the catch of processVote /
\* processUnvote throws it on (it is no 409).  What the other read gave, or
\* will give, is dropped.
ReadFails(p, path) ==
  /\ pc[p] = "read"
  /\ path \notin got[p]
  /\ LET next == Thrown(p, "storeError")
     IN /\ pc' = [pc EXCEPT ![p] = next.pc]
        /\ attempt' = [attempt EXCEPT ![p] = next.attempt]
        /\ blogData' = [blogData EXCEPT ![p] = next.blogData]
        /\ votesData' = [votesData EXCEPT ![p] = next.votesData]
        /\ result' = [result EXCEPT ![p] = next.result]
        /\ seen' = [seen EXCEPT ![p] = next.seen]
  /\ sha' = [sha EXCEPT ![p] = NoSha]
  /\ UNCHANGED <<storeVars, req, got, cur, retryCount, issued, committed,
                 rival, puts, started, origin, hist, limiterVars, listing>>

\* No vote in the ledger to begin with, whatever else the files are.
InitFail ==
  /\ Init
  /\ votesJson.exists => votesJson.votes = NoVotes

NextFail ==
  \E p \in Procs :
    \/ \E kind \in Kinds, b \in Items, h \in IpHashes : StartFair(p, kind, b, h)
    \/ \E path \in Paths : ReadFile(p, path)
    \/ \E path \in Paths : ReadFails(p, path)
    \/ PutFile(p)
    \/ Refetch(p)
    \/ Backoff(p)

SpecFail == InitFail /\ [][NextFail]_vars

StoreErrors == {"dataFileNotFound", "storeError"}

\* The operation of p ends in this step with the error out, thrown by the
\* attempt that met it; nothing read is kept and nothing was written.
FailsWith(p, out) ==
  /\ EndsWith(p, out)
  /\ attempt'[p] = attempt[p] + 1
  /\ blogData'[p] = NoDataFile /\ votesData'[p] = NoVotesFile

\* C12: when data.json is missing, or one of the two reads of an attempt
\* fails with an error that is no conflict, the operation ends there with
\* that error: no further attempt, the other read unused, no write sent.
C12_StoreErrorEndsOperation ==
  /\ [](\A p \in Procs :
          result[p].out \in StoreErrors => pc[p] = "done" /\ ~issued[p])
  /\ [][\A p \in Procs :
          /\ (ReadsDone(p) /\ ~DataRead(p).exists)
               => FailsWith(p, "dataFileNotFound")
          /\ \A path \in Paths :
               (ReadFails(p, path) /\ pc'[p] # pc[p])
                 => FailsWith(p, "storeError")
          /\ (pc[p] = "done" /\ result[p].out \in StoreErrors /\ pc'[p] # "done")
               => (pc'[p] = "read" /\ attempt'[p] = 0 /\ result'[p] = NoResult)
     ]_vars

\* A read that fails in the second attempt of an operation, the other read
\* of that attempt answered.
C12_Witness ==
  \E p \in Procs :
    /\ pc[p] = "done" /\ result[p].out = "storeError"
    /\ attempt[p] = 2 /\ got[p] # {} /\ ~issued[p]

\* ------------------------------------------------------------ one caller

\* The request before the one the caller has now been answered.
Previous == hist[Len(hist)]

\* C3: with no other writer, a castVote that succeeds followed at once by a
\* castVote of the same item and identity: the second returns "already
\* voted" and the stored voteCount is the one the first returned.
C3_SecondCastRejected ==
  \A p \in Procs :
    ( /\ pc[p] = "done" /\ hist # <<>>
      /\ req[p].kind = "vote" /\ Previous.req = req[p]
      /\ Previous.result.out = "success" )
    => /\ result[p].out = "alreadyVoted"
       /\ dataJson.entries[req[p].blogId] = Previous.result.newVoteCount

C3_Witness ==
  \E p \in Procs :
    /\ pc[p] = "done" /\ hist # <<>>
    /\ req[p].kind = "vote" /\ Previous.req = req[p]
    /\ Previous.result.out = "success"
    /\ result[p].out = "alreadyVoted"
    /\ dataJson.entries[req[p].blogId] = Previous.result.newVoteCount

\* castVote, retractVote, castVote of one existing item by one identity that
\* had not voted, the third answered.
CastRetractCast(p) ==
  /\ pc[p] = "done" /\ Len(hist) = 2
  /\ req[p].kind = "vote"
  /\ hist[1].req = req[p]
  /\ hist[2].req = [req[p] EXCEPT !.kind = "unvote"]
  /\ origin.data.exists /\ req[p].blogId \in DOMAIN origin.data.entries
  /\ req[p].ipHash \notin origin.votes.votes[req[p].blogId]

\* C4: with no other writer, castVote, retractVote, castVote of an existing
\* item by an identity that had not voted all return success, the ledger
\* entry is present, absent, present after them, and the last returns the
\* original voteCount plus one.
C4_CastRetractCast ==
  \A p \in Procs :
    CastRetractCast(p) =>
      LET b == req[p].blogId
          h == req[p].ipHash
      IN /\ hist[1].result.out = "success" /\ h \in hist[1].votes.votes[b]
         /\ hist[2].result.out = "success" /\ h \notin hist[2].votes.votes[b]
         /\ result[p].out = "success" /\ h \in votesJson.votes[b]
         /\ result[p].newVoteCount = origin.data.entries[b] + 1

C4_Witness ==
  \E p \in Procs :
    /\ CastRetractCast(p)
    /\ result[p].out = "success"
    /\ result[p].newVoteCount = origin.data.entries[req[p].blogId] + 1

\* ----------------------------------------------------------- rate limiter

\* C8: capacity 10, window one hour: the first 10 calls of an identity in a
\* window return true, the 11th and every further one false; the first call
\* made more than the window length after the window opened returns true and
\* leaves count = 1, windowStart = now.
C8_TenPerWindow ==
  /\ \A h \in IpHashes :
       window[h].allowed =
         IF window[h].calls <= 10 THEN window[h].calls ELSE 10
  /\ last.ipHash # "none" =>
       /\ last.allowed <=> window[last.ipHash].calls <= 10
       /\ last.opened =>
            /\ last.allowed
            /\ rateLimitMap[last.ipHash] = [count |-> 1, windowStart |-> last.at]

\* The 11th call, made at the very end of the window, is refused.
C8_Witness ==
  \E h \in IpHashes :
    /\ last = [ipHash |-> h, at |-> now, allowed |-> FALSE, opened |-> FALSE]
    /\ window[h].calls = 11
    /\ now - window[h].start = RATE_LIMIT_WINDOW

\* ------------------------------------------------------------- handlers

\* In this step a vote request of h arrives on p and checkRateLimit refuses it.
RateLimited(p, h) ==
  /\ \E b \in Items : VoteRequest(p, b, h)
  /\ ~CheckRateLimit(rateLimitMap, h, now).allowed

\* C13: a vote request refused by the rate limiter is answered in the step
\* in which it arrives, before any read or write of the store: both files,
\* and the shas the invocations hold of them, are as they were.
C13_RateLimitedBeforeStore ==
  /\ [](\A p \in Procs :
          result[p].out = "rateLimited"
            => /\ pc[p] = "done" /\ attempt[p] = 0
               /\ got[p] = {} /\ ~issued[p] /\ committed[p] = {})
  /\ [][\A p \in Procs, h \in IpHashes :
          RateLimited(p, h)
            => /\ pc'[p] = "done" /\ result'[p].out = "rateLimited"
               /\ got'[p] = {} /\ ~issued'[p]
               /\ dataJson' = dataJson /\ votesJson' = votesJson
               /\ \A q \in Procs \ {p} : sha'[q] = sha[q]
     ]_vars

\* The 11th vote request of an identity, refused, after votes of it that
\* were written.
C13_Witness ==
  \E p \in Procs :
    /\ pc[p] = "done" /\ result[p].out = "rateLimited"
    /\ window[req[p].ipHash].calls = MAX_VOTES_PER_WINDOW + 1
    /\ votesJson.exists /\ req[p].ipHash \in votesJson.votes[req[p].blogId]

\* ------------------------------------------------------ a missing ledger

\* The attempt of p has read data.json with its item in it, and found no
\* votes.json.
LedgerMissing(p, kind) ==
  /\ ReadsDone(p)
  /\ req[p].kind = kind
  /\ DataRead(p).exists
  /\ req[p].blogId \in DOMAIN DataRead(p).entries
  /\ ~VotesRead(p).exists

\* castVote goes on as if nobody had voted: to its writes, with a ledger that
\* holds its vote alone and the count of the item one up.
CastOnEmptyLedger(p) ==
  LedgerMissing(p, "vote") =>
    /\ pc'[p] = "put"
    /\ votesData'[p] =
         [exists |-> TRUE,
          votes |-> [NoVotes EXCEPT ![req[p].blogId] = {req[p].ipHash}]]
    /\ blogData'[p].entries[req[p].blogId] =
         DataRead(p).entries[req[p].blogId] + 1

\* listVotes answers with userVoted = false for every item.
ListOnEmptyLedger ==
  (listing.pc = "done" /\ listing.blogData.exists /\ ~listing.votesData.exists)
    => /\ listing.error = "none"
       /\ Len(listing.response) = Len(listing.blogData.entries)
       /\ \A k \in 1..Len(listing.response) : ~listing.response[k].userVoted

Listed(entry, ledger, h) ==
  [id |-> entry.id,
   votes |-> IF entry.votes = NoVotesField THEN 0 ELSE entry.votes,
   userVoted |-> IF ledger.exists /\ entry.id \in DOMAIN ledger.votes
                   THEN h \in ledger.votes[entry.id] ELSE FALSE]

\* C15: listVotes writes nothing and reads each file once; with data.json
\* there, it returns one record per entry, in the order of the entries, with
\* the votes stored (0 without the field) and userVoted true exactly when the
\* identity has an entry under the item in the ledger as read.
C15_ListReadsOnly ==
  /\ [](listing.pc = "done" =>
          IF listing.blogData.exists
            THEN /\ listing.error = "none"
                 /\ Len(listing.response) = Len(listing.blogData.entries)
                 /\ \A k \in 1..Len(listing.response) :
                      listing.response[k] =
                        Listed(listing.blogData.entries[k], listing.votesData,
                               listing.ipHash)
            ELSE listing.error = "dataFileNotFound" /\ listing.response = <<>>)
  /\ [][listing' # listing =>
          /\ dataJson' = dataJson /\ votesJson' = votesJson /\ sha' = sha
          /\ listing.pc = "read" =>
               /\ listing'.ipHash = listing.ipHash
               /\ \E path \in Paths \ listing.got :
                    listing'.got = listing.got \cup {path}
               /\ listing'.pc = IF listing'.got = Paths THEN "done" ELSE "read"
          /\ listing.pc # "read" => listing'.pc = "read" /\ listing'.got = {}
     ]_vars

\* Two entries listed in their order, the second without a votes field, the
\* identity with a vote under the first only, cast while the list was read.
C15_Witness ==
  /\ listing.pc = "done" /\ Len(listing.response) = 2
  /\ listing.response[1].id \notin Items
  /\ listing.response[1].userVoted /\ listing.response[1].votes = 1
  /\ listing.blogData.entries[2].votes = NoVotesField
  /\ listing.response[2].votes = 0 /\ ~listing.response[2].userVoted
  /\ votesJson.exists
  /\ listing.ipHash \in votesJson.votes[listing.response[2].id]

\* -------------------------------------------------------- accepted writes

\* In this step the store accepts the write of path that p sent: the sha
\* that came with it is the current one of the file.
Commits(p, path) ==
  /\ pc[p] = "put" /\ cur[p] = path /\ sha[p][path]
  /\ IF path = VOTES_PATH THEN cur'[p] = DATA_PATH ELSE pc'[p] = "done"

\* Both files were there before the first request: every read has found
\* them, and every write is the update of a file that exists.
FilesThere ==
  started <= MaxTracked /\ origin.data.exists /\ origin.votes.exists

\* The change the request of p makes to a ledger and to the entries.
LedgerChange(p, votes) ==
  IF req[p].kind = "vote" THEN RecordVote(votes, req[p].blogId, req[p].ipHash)
                          ELSE RemoveVote(votes, req[p].blogId, req[p].ipHash)

CountChange(p, n) == IF req[p].kind = "vote" THEN Increment(n) ELSE Decrement(n)

\* C16: the content of every accepted write is the change of the request
\* made to the version of the file whose sha the write carried, which is the
\* version stored when the write is accepted: after a 409 the content is made
\* again from the file fetched again.
C16_WriteFromVersionRead ==
  [][\A p \in Procs :
       /\ (FilesThere /\ Commits(p, VOTES_PATH))
            => votesData[p].votes = LedgerChange(p, votesJson.votes)
       /\ (FilesThere /\ Commits(p, DATA_PATH))
            => blogData[p].entries =
                 [dataJson.entries EXCEPT ![req[p].blogId] = CountChange(p, @)]
    ]_vars

\* C17: an entry (item, identity) of the stored ledger disappears only by
\* the accepted write of a retractVote of that item and identity.
C17_EntryRemovedByItsRetract ==
  [][\A b \in Items, h \in IpHashes :
       (FilesThere /\ h \in votesJson.votes[b] /\ h \notin votesJson'.votes[b])
         => \E p \in Procs :
              /\ Commits(p, VOTES_PATH)
              /\ req[p] = [kind |-> "unvote", blogId |-> b, ipHash |-> h]
    ]_vars

\* C18: every accepted write of data.json by a request for item X moves the
\* stored votes of X by +1 (castVote) or by -1, not below 0 (retractVote),
\* from the value stored just before, and leaves every other item's alone.
C18_CountMovesByOne ==
  [][\A p \in Procs :
       (FilesThere /\ Commits(p, DATA_PATH)) =>
         /\ DOMAIN dataJson'.entries = DOMAIN dataJson.entries
         /\ \A i \in DOMAIN dataJson.entries :
              dataJson'.entries[i] =
                IF i = req[p].blogId THEN CountChange(p, dataJson.entries[i])
                                     ELSE dataJson.entries[i]
    ]_vars

\* ------------------------------------------------ the two writes of an attempt

\* C19 as stated: every attempt that reaches its writes sends the write of
\* data.json, also when its write of votes.json has failed with its
\* sub-retries used up: no attempt ends on the write of votes.json.
C19_DataWriteWhatever ==
  [][\A p \in Procs : ConflictRaised(p) => cur[p] = DATA_PATH]_vars

\* C19 as amended: an attempt sends the write of data.json when, and only
\* when, its write of votes.json has been accepted; when the write of
\* votes.json fails with its sub-retries used up the attempt ends there,
\* with no write of data.json sent.
C19_DataWriteAfterLedgerWrite ==
  /\ [](\A p \in Procs :
          (pc[p] \in {"put", "refetch"} /\ cur[p] = DATA_PATH)
            => VOTES_PATH \in committed[p])
  /\ [][\A p \in Procs :
          /\ Commits(p, VOTES_PATH) => pc'[p] = "put" /\ cur'[p] = DATA_PATH
          /\ (cur[p] = VOTES_PATH /\ cur'[p] = DATA_PATH)
               => Commits(p, VOTES_PATH)
          /\ (ConflictRaised(p) /\ cur[p] = VOTES_PATH)
               => /\ pc'[p] \in {"backoff", "done"}
                  /\ cur'[p] = VOTES_PATH
                  /\ dataJson' = dataJson /\ votesJson' = votesJson
     ]_vars

\* The first attempt of an operation has ended on its write of votes.json:
\* writes were sent in it, none was accepted.
C19_Witness ==
  \E p \in Procs :
    /\ pc[p] = "backoff" /\ attempt[p] = 1
    /\ issued[p] /\ committed[p] = {}

\* The writes the attempt of p has sent so far are the puts[p] writes of
\* cur[p] and, once it is writing data.json, those of votes.json before:
\* one of them at the least.
PutsAtLeast(p) == puts[p] + (IF cur[p] = DATA_PATH /\ puts[p] > 0 THEN 1 ELSE 0)

\* C20: an operation sends at most MAX_RETRIES conditional writes to any one
\* file, and one attempt sends at most two writes, one to each file.  The
\* code does not keep to it: updateGitHubFile sends its write again after
\* every conflict until retryCount reaches MAX_RETRIES, which makes up to
\* 1 + MAX_RETRIES writes to one file within one attempt.
C20_WritesBounded ==
  \A p \in Procs : puts[p] <= MAX_RETRIES /\ PutsAtLeast(p) <= 2

\* C20, as the code has it: the conflicts of one file write have a budget of
\* their own.  One attempt sends at most 1 + MAX_RETRIES writes to each file,
\* the first and one after each of MAX_RETRIES conflicts, and an operation
\* makes at most MAX_RETRIES attempts.
C20_WritesBoundedPerAttempt ==
  \A p \in Procs :
    /\ puts[p] <= 1 + MAX_RETRIES
    /\ attempt[p] <= MAX_RETRIES
    /\ pc[p] \in {"read", "put", "refetch"} => attempt[p] < MAX_RETRIES
    /\ pc[p] \in {"put", "refetch"} <=> puts[p] > 0

\* C20 witness: in its last attempt an invocation is sending its write of
\* data.json for the (1 + MAX_RETRIES)th time, MAX_RETRIES conflicts after
\* the first.
C20_Witness ==
  \E p \in Procs :
    /\ pc[p] = "put" /\ cur[p] = DATA_PATH
    /\ attempt[p] = MAX_RETRIES - 1
    /\ puts[p] = 1 + MAX_RETRIES

\* ------------------------------------------------------------- termination

\* Every call of the store returns, with its answer or with an error; the
\* timers fire.
\* The requests beside the one followed are those of one caller.
StartTerm(p, kind, b, h) ==
  /\ p # (CHOOSE q \in Procs : TRUE) => h = CHOOSE i \in IpHashes : TRUE
  /\ StartFair(p, kind, b, h)

NextTerm ==
  \E p \in Procs :
    \/ \E kind \in Kinds, b \in Items, h \in IpHashes : StartTerm(p, kind, b, h)
    \/ \E path \in Paths : ReadFile(p, path)
    \/ \E path \in Paths : ReadFails(p, path)
    \/ PutFile(p)
    \/ Refetch(p)
    \/ Backoff(p)

SpecTerm == InitFair /\ [][NextTerm]_vars /\ Fairness

\* The read of data.json that a vote is waiting for is one the model does
\* not follow: an entry stands at MaxVotes.
ReadCapped(p) ==
  /\ pc[p] = "read" /\ req[p].kind = "vote" /\ DATA_PATH \notin got[p]
  /\ \E i \in DOMAIN dataJson.entries : dataJson.entries[i] >= MaxVotes

\* C21: with every store call returning, an invocation of processVote /
\* processUnvote comes to its end, whatever the answers are; it makes at most
\* MAX_RETRIES attempts, and a conflict leaves updateGitHubFile only when
\* 1 + MAX_RETRIES writes of the file have been sent and answered 409.
\* (The model follows an invocation up to a read of data.json with an entry
\* at MaxVotes.)
C21_Terminates ==
  /\ \A p \in Procs : Active(p) ~> (pc[p] = "done" \/ ReadCapped(p))
  /\ [](\A p \in Procs :
          /\ attempt[p] <= MAX_RETRIES
          /\ Active(p) => attempt[p] < MAX_RETRIES)
  /\ [][\A p \in Procs :
          /\ ConflictRaised(p) => puts[p] = 1 + MAX_RETRIES
          /\ puts'[p] <= 1 + MAX_RETRIES ]_vars

\* C21 witness: an operation has ended with every write it sent answered
\* 409: nothing of it was committed in MAX_RETRIES attempts.
C21_Witness ==
  \E p \in Procs :
    /\ pc[p] = "done" /\ result[p].out = "conflict"
    /\ attempt[p] = MAX_RETRIES
    /\ issued[p] /\ committed[p] = {}

\* ------------------------------------------------- the frame of checkRateLimit

\* The count of h once the window is reset, when it has to be: what
\* checkRateLimit compares with MAX_VOTES_PER_WINDOW.
CountAfterReset(h) ==
  IF h \in DOMAIN rateLimitMap /\ ~Expired(now, rateLimitMap[h].windowStart)
    THEN rateLimitMap[h].count
    ELSE 0

\* C22: a call of checkRateLimit that returns false leaves rateLimitMap as it
\* was, the entry of every identity included; a call that returns true
\* leaves the caller's count one above its value after the reset of the
\* window, if there was one, and the entries of the others as they were.
C22_RefusalChangesNothing ==
  [][\A h \in IpHashes :
       Allow(h) =>
         IF last'.allowed
           THEN /\ DOMAIN rateLimitMap' = DOMAIN rateLimitMap \cup {h}
                /\ rateLimitMap'[h].count = CountAfterReset(h) + 1
                /\ \A k \in DOMAIN rateLimitMap \ {h} :
                     rateLimitMap'[k] = rateLimitMap[k]
           ELSE rateLimitMap' = rateLimitMap ]_vars

\* C22 witness: a call has been refused while the map holds the entry of
\* another identity, with calls of its own counted in it.
C22_Witness ==
  \E h \in IpHashes : \E k \in IpHashes \ {h} :
    /\ last.ipHash = h /\ ~last.allowed
    /\ k \in DOMAIN rateLimitMap
    /\ rateLimitMap[k].count \in 2..(MAX_VOTES_PER_WINDOW - 1)
    /\ rateLimitMap[k].windowStart # rateLimitMap[h].windowStart

\* C23: every entry of rateLimitMap holds a count from 1 to
\* MAX_VOTES_PER_WINDOW and a windowStart not after the clock; the entry is
\* that of the identity's window by the clock, its count the number of the
\* calls answered true in that window, which is MAX_VOTES_PER_WINDOW at most.
C23_CountWithinCapacity ==
  /\ \A h \in DOMAIN rateLimitMap :
       /\ rateLimitMap[h].count \in 1..MAX_VOTES_PER_WINDOW
       /\ rateLimitMap[h].windowStart \in 0..now
       /\ rateLimitMap[h].windowStart = window[h].start
       /\ rateLimitMap[h].count = window[h].allowed
  /\ \A h \in IpHashes :
       /\ window[h].allowed <= MAX_VOTES_PER_WINDOW
       /\ h \notin DOMAIN rateLimitMap => window[h].calls = 0

\* C23 witness: one identity has used up its window, with more calls made
\* than were allowed, and another is at the first call of a later window.
C23_Witness ==
  \E h \in IpHashes : \E k \in IpHashes \ {h} :
    /\ DOMAIN rateLimitMap = {h, k}
    /\ rateLimitMap[h].count = MAX_VOTES_PER_WINDOW
    /\ window[h].calls > MAX_VOTES_PER_WINDOW
    /\ rateLimitMap[k].count = 1
    /\ rateLimitMap[k].windowStart > rateLimitMap[h].windowStart
    /\ window[k].start > RATE_LIMIT_WINDOW

\* ------------------------------------------------------------ per identity

\* C24: the answers an identity gets, and the entry kept for it, are those
\* of its own calls at their own times: with the calls of every other
\* identity left out (solo) each of its calls is answered the same and
\* leaves the same { count, windowStart }.  Two sequences of calls that
\* agree on the calls of the identity agree with the same solo run, and so
\* with each other.
C24_PerIdentity ==
  /\ [](\A h \in IpHashes :
          /\ DOMAIN solo[h] = DOMAIN rateLimitMap \cap {h}
          /\ h \in DOMAIN rateLimitMap => rateLimitMap[h] = solo[h][h])
  /\ [][\A h \in IpHashes :
          /\ Allow(h) => last'.allowed = CheckRateLimit(solo[h], h, now).allowed
          /\ (\E k \in IpHashes \ {h} : Allow(k)) => solo'[h] = solo[h] ]_vars

\* C24 witness: an identity is allowed a call in the window in which the
\* other has, before that call, been refused.
C24_Witness ==
  \E h \in IpHashes : \E k \in IpHashes \ {h} :
    /\ last.ipHash = h /\ last.allowed
    /\ DOMAIN rateLimitMap = {h, k}
    /\ window[k].calls > MAX_VOTES_PER_WINDOW
    /\ window[k].start <= rateLimitMap[h].windowStart
    /\ rateLimitMap[h].count > 1
    /\ ~Expired(now, window[k].start)

\* ------------------------------------------------- what the rate limit counts

\* Both files to begin with, the item in data.json or not, nobody's vote.
InitQuota ==
  /\ Init
  /\ dataJson.exists /\ \A i \in DOMAIN dataJson.entries : dataJson.entries[i] = 0
  /\ votesJson = [exists |-> TRUE, votes |-> NoVotes]

\* One invocation serves the request followed, the other the requests of one
\* caller, any number of them.
Arrives(p, h) ==
  \/ p = (CHOOSE q \in Procs : TRUE) /\ pc[p] = "idle"
  \/ p # (CHOOSE q \in Procs : TRUE) /\ h = CHOOSE i \in IpHashes : TRUE

\* POST /api/vote, beside whatever else is in flight.
VoteArrives(p, b, h) ==
  /\ Arrives(p, h)
  /\ VoteHandler(p, b, h)
  /\ UNCHANGED <<started, origin, hist, listing>>

\* POST /api/unvote, beside whatever else is in flight.
UnvoteArrives(p, b, h) ==
  /\ Arrives(p, h)
  /\ UnvoteHandler(p, b, h)
  /\ UNCHANGED <<started, origin, hist, listing>>

NextQuota ==
  \E p \in Procs :
    \/ \E b \in BlogIds, h \in IpHashes : VoteArrives(p, b, h)
    \/ \E b \in BlogIds, h \in IpHashes : UnvoteArrives(p, b, h)
    \/ \E path \in Paths : ReadFile(p, path)
    \/ \E path \in Paths : ReadFails(p, path)
    \/ PutFile(p)
    \/ Refetch(p)
    \/ Backoff(p)

SpecQuota == InitQuota /\ [][NextQuota]_vars

\* C25: checkRateLimit counts the vote requests that reach it, whatever
\* becomes of them.  A vote request with a blogId that passes the limiter
\* leaves the count of its identity one higher in the step in which it
\* arrives, before processVote has read anything; no later step, those in
\* which processVote rejects the vote or fails included, changes
\* rateLimitMap; a request of unvote.js changes nothing of the limiter.
C25_AttemptsCounted ==
  /\ [](\A p \in Procs :
          ( /\ pc[p] # "idle" /\ req[p].kind = "vote" /\ req[p].blogId # ""
            /\ result[p].out # "rateLimited" )
            => /\ req[p].ipHash \in DOMAIN rateLimitMap
               /\ rateLimitMap[req[p].ipHash].count >= 1
               /\ window[req[p].ipHash].calls = 1
                    => rateLimitMap[req[p].ipHash].count = 1)
  /\ [][\A p \in Procs, h \in IpHashes :
          /\ (\E b \in Items : VoteArrives(p, b, h))
               => IF last'.allowed
                    THEN /\ pc'[p] = "read"
                         /\ rateLimitMap'[h].count = CountAfterReset(h) + 1
                    ELSE /\ pc'[p] = "done" /\ result'[p].out = "rateLimited"
                         /\ rateLimitMap' = rateLimitMap
          /\ (\E b \in BlogIds : UnvoteArrives(p, b, h))
               => UNCHANGED <<rateLimitMap, now, window, last>>
     ]_vars
  /\ [][(\A p \in Procs, h \in IpHashes : ~\E b \in Items : VoteArrives(p, b, h))
          => rateLimitMap' = rateLimitMap]_vars

\* C25 witness: the one vote request of an identity has ended in a conflict,
\* after MAX_RETRIES attempts, and stands counted in its window.
C25_Witness ==
  \E p \in Procs :
    /\ pc[p] = "done" /\ req[p].kind = "vote"
    /\ result[p].out = "conflict"
    /\ window[req[p].ipHash].calls = 1
    /\ rateLimitMap[req[p].ipHash].count = 1

====
